---------------------------- MODULE Spec2Model ----------------------------
(***************************************************************************)
(* A model of the Dhan stock scraper: src/dhan_scraper.py (the class       *)
(* DhanStockScraper) and src/app.py (the /trigger-scrape endpoint that     *)
(* starts run_scraper on a background thread).                             *)
(*                                                                         *)
(* Texts are sequences of one-character strings.  A rendered table row is  *)
(* the texts of its cells plus whether touching the element raises.  The   *)
(* browser, the page, the file system and the mail server are the          *)
(* environment: every call to them either returns one of the values it can *)
(* return or raises.  The wall-clock 'timestamp' of a record is read by no *)
(* branch of the program and is left out of the records.                   *)
(***************************************************************************)
EXTENDS Integers, Sequences, FiniteSets, TLC

(***************************************************************************)
(* Program constants.                                                      *)
(***************************************************************************)
max_scroll_attempts == 50
NoNewDataLimit == 5
StableHeightLimit == 3
ScreenshotEvery == 50
MinColumns == 5

(***************************************************************************)
(* Bounds of the model.                                                    *)
(***************************************************************************)
MaxRows == 1
MaxHeight == 2
MaxFeed == 52
MaxSmallRows == 1
MaxExtractorRows == 2

Threads == {"t1", "t2"}
\* document.documentElement.scrollHeight of a rendered page is positive.
Heights == 1..MaxHeight

(***************************************************************************)
(* Texts: str.strip, str.replace(',', ''), '\n' in s, s.split('\n')[1],    *)
(* and float(s) on the alphabet the pages below use.                        *)
(***************************************************************************)
IsSpace(c) == c \in {" ", "\n"}

RECURSIVE LStrip(_)
LStrip(s) == IF s # <<>> /\ IsSpace(Head(s)) THEN LStrip(Tail(s)) ELSE s

RECURSIVE RStrip(_)
RStrip(s) ==
    IF s # <<>> /\ IsSpace(s[Len(s)]) THEN RStrip(SubSeq(s, 1, Len(s) - 1)) ELSE s

Strip(s) == RStrip(LStrip(s))

RemoveCommas(s) == SelectSeq(s, LAMBDA c : c # ",")

HasNewline(s) == \E i \in 1..Len(s) : s[i] = "\n"

FirstNewline(s) == CHOOSE i \in 1..Len(s) : s[i] = "\n" /\ \A j \in 1..(i - 1) : s[j] # "\n"

\* s.split('\n')[1]: the text between the first and the second line break.
RECURSIVE UpToNewline(_)
UpToNewline(s) ==
    IF s = <<>> \/ Head(s) = "\n" THEN <<>> ELSE <<Head(s)>> \o UpToNewline(Tail(s))

SecondLine(s) == UpToNewline(SubSeq(s, FirstNewline(s) + 1, Len(s)))

SymbolOf(name) == IF HasNewline(name) THEN SecondLine(name) ELSE name

IsDigit(c) == c \in {"0", "1", "2", "3", "4", "5", "6", "7", "8", "9"}

DigitVal(c) ==
    CASE c = "0" -> 0 [] c = "1" -> 1 [] c = "2" -> 2 [] c = "3" -> 3 [] c = "4" -> 4
      [] c = "5" -> 5 [] c = "6" -> 6 [] c = "7" -> 7 [] c = "8" -> 8 [] OTHER -> 9

RECURSIVE DigitsVal(_)
DigitsVal(s) == IF s = <<>> THEN 0 ELSE 10 * DigitsVal(SubSeq(s, 1, Len(s) - 1)) + DigitVal(s[Len(s)])

AllDigits(s) == s # <<>> /\ \A i \in 1..Len(s) : IsDigit(s[i])

\* float(s) ignores surrounding white space and accepts an optional sign before
\* the digits; the pages here render no decimal point, so every parsed price
\* is a whole number.  Any other text raises ValueError.
FloatParses(s) ==
    LET u == Strip(s)
    IN  \/ AllDigits(u)
        \/ Len(u) > 1 /\ u[1] \in {"-", "+"} /\ AllDigits(Tail(u))

FloatOf(s) ==
    LET u == Strip(s)
    IN  IF AllDigits(u) THEN DigitsVal(u)
        ELSE IF u[1] = "-" THEN 0 - DigitsVal(Tail(u)) ELSE DigitsVal(Tail(u))

\* A Python value of the 'price' key: a float, or the str it was left as.
FloatValue(n) == [kind |-> "float", v |-> n, s |-> <<>>]
StrValue(s) == [kind |-> "str", v |-> 0, s |-> s]

\* lines 158 and 164-169: strip, drop the commas, and convert when not empty.
PriceOf(cell) ==
    LET price == RemoveCommas(Strip(cell))
    IN  IF price # <<>>
        THEN IF FloatParses(price) THEN FloatValue(FloatOf(price)) ELSE FloatValue(0)
        ELSE StrValue(price)

(***************************************************************************)
(* The record of a row and the duplicate test, lines 152-179.              *)
(***************************************************************************)
AlreadyHaveNever(data, name) == FALSE

\* any(stock['name'] == name for stock in all_stocks_data)
AlreadyHave(data, name) == \E i \in 1..Len(data) : data[i].name = name

StockData(columns) ==
    LET name == Strip(columns[1])
    IN  [name |-> name,
         symbol |-> SymbolOf(name),
         price |-> PriceOf(columns[2]),
         change_percent |-> Strip(columns[3]),
         volume |-> Strip(columns[4]),
         value |-> Strip(columns[5])]

(***************************************************************************)
(* The pages.  A table page renders rows out of a fixed table; a feed      *)
(* reveals one more stock whenever it likes; a small page is the table     *)
(* page cut down for runs that overlap.                                     *)
(***************************************************************************)
Cell == <<"x">>
Row(name, price) == [columns |-> <<name, price, Cell, Cell, Cell>>, raises |-> FALSE]

RowA1 == Row(<<"A">>, <<"1", ",", "2">>)
RowA2 == Row(<<" ", "A">>, <<"N">>)
RowB == Row(<<"B", "\n", "C">>, <<>>)
RowBlank == Row(<<" ">>, <<"1">>)
RowShort == [columns |-> <<<<"B">>, <<"1">>, Cell, Cell>>, raises |-> FALSE]
RowStale == [columns |-> <<<<"B">>, <<"1">>, Cell, Cell, Cell>>, raises |-> TRUE]

RowNeg == Row(<<"D">>, <<"-", "1">>)
RowThree == Row(<<"E", "\n", "F", "\n", "G">>, <<"3">>)

TableRows == {RowA1, RowA2, RowB, RowBlank, RowShort, RowStale}
SmallRows == {RowA1, RowA2, RowBlank}
ExtractorRows == TableRows \cup {RowNeg, RowThree}

SeqsUpTo(S, n) == UNION {[1..k -> S] : k \in 1..n}

\* The name of the k-th stock of a feed.
StockName(k) == [i \in 1..k |-> "S"]
FeedRow(k) == Row(StockName(k), <<"1">>)

\* Every row a page can render, and what lines 152-179 read in each, worked
\* out once: the name of its first cell, and the record of a row with columns
\* enough.
AllRows == ExtractorRows \cup SmallRows \cup {FeedRow(k) : k \in 1..MaxFeed}

NameOf == [row \in AllRows |-> Strip(row.columns[1])]

RecordOf == [row \in {r \in AllRows : Len(r.columns) >= MinColumns} |-> StockData(row.columns)]

ProcessRowKeepsBlank(data, row) ==
    IF row.raises THEN data
    ELSE IF Len(row.columns) >= MinColumns
         THEN IF AlreadyHave(data, NameOf[row]) THEN data ELSE Append(data, RecordOf[row])
         ELSE data

\* One pass of the body of 'for row in table_rows' over the list so far.
ProcessRow(data, row) ==
    IF row.raises THEN data
    ELSE IF Len(row.columns) >= MinColumns
         THEN LET name == NameOf[row]
              IN  IF name = <<>> \/ AlreadyHave(data, name) THEN data
                  ELSE Append(data, RecordOf[row])
         ELSE data

RECURSIVE ProcessRows(_, _)
ProcessRows(data, rows) ==
    IF rows = <<>> THEN data ELSE ProcessRows(ProcessRow(data, Head(rows)), Tail(rows))

\* What wait.until can return when the list so far is data: never an empty
\* list (until() returns only a truthy value).  A feed renders its newest
\* stock again or the next one.
Rendered(page, data) ==
    CASE page = "table" -> SeqsUpTo(TableRows, MaxRows)
      [] page = "small" -> SeqsUpTo(SmallRows, MaxSmallRows)
      [] page = "rows" -> SeqsUpTo(ExtractorRows, MaxExtractorRows)
      [] OTHER -> {<<FeedRow(k)>> : k \in {n \in {Len(data), Len(data) + 1} : n >= 1 /\ n <= MaxFeed}}

\* The heights a page can report when the last one measured was last: a feed
\* has grown whenever it is measured, and the small table has one height.
Measured(page, last) ==
    CASE page = "feed" -> {h \in Heights : h # last}
      [] page \in {"small", "rows"} -> {1}
      [] OTHER -> Heights


(***************************************************************************)
(* State.  Every variable but csv_file, creds and prior is a function of    *)
(* the thread: the locals of the thread's calls, the fields of the scraper *)
(* object it made, and the history of its run.                              *)
(***************************************************************************)
VARIABLES
    pc,                   \* where the thread is in run_scraper / run_once
    driver,               \* self.driver of each scraper object
    session,              \* the browser session each run launched
    all_stocks_data,      \* locals of scrape_stock_data
    last_height,
    scroll_attempts,
    no_new_data_count,
    previous_stock_count,
    stocks_data,          \* local of run_once: what scrape_stock_data returned
    file_exists,          \* local of save_to_csv
    csv_file,             \* the file dhan_stocks.csv
    creds,                \* whether the e-mail environment variables are set
    prior,                \* history: csv_file as it was before the first run
    iterations,           \* history: loop iterations begun (counted to one past the cap)
    never_stable,         \* history: every iteration so far changed height and count
    first_seen,           \* history: the rows that named a stock first, in order
    dropped,              \* history: a row named a stock the list already had
    skipped,              \* history, kept on the page "rows": a row was passed over and the next admitted
    zero_streak,          \* history: consecutive iterations that admitted nothing
    exit,                 \* history: how scrape_stock_data ended
    held,                 \* history: the list accumulated when it ended
    acquired,             \* history: browser sessions the run launched
    persisted,            \* history: what save_to_csv returned
    notified,             \* history: what send_csv_email returned
    saved,                \* history: the lists save_to_csv wrote, in the order written
    save_failed,          \* history: a call of save_to_csv returned False
    response              \* what trigger_scrape answered the request that started the thread

localVars == <<all_stocks_data, last_height, scroll_attempts, no_new_data_count,
               previous_stock_count>>
driverVars == <<driver, session, acquired>>
loopHist == <<iterations, never_stable, first_seen, dropped, skipped, zero_streak>>
exitHist == <<exit, held>>
deliveryVars == <<file_exists, csv_file, persisted, notified, saved, save_failed>>
envVars == <<creds, prior>>
vars == <<pc, localVars, driverVars, loopHist, exitHist, stocks_data, deliveryVars, envVars, response>>

None == [is_none |-> TRUE, rows |-> <<>>]
Some(data) == [is_none |-> FALSE, rows |-> data]
\* bool(x) of a value that is None or a list
Truthy(x) == ~x.is_none /\ x.rows # <<>>

Absent == [exists |-> FALSE, lines |-> <<>>]
File(lines) == [exists |-> TRUE, lines |-> lines]

\* csv.DictWriter with fieldnames = headers: one line per dict, the values in
\* the order of the headers (the timestamp column is left out, see above).
HeaderLine == [header |-> TRUE, fields |-> <<>>]
CsvLine(stock) ==
    [header |-> FALSE,
     fields |-> <<stock.name, stock.symbol, stock.price, stock.change_percent,
                  stock.volume, stock.value>>]
CsvLines(data) == [i \in 1..Len(data) |-> CsvLine(data[i])]

PriorRow == [name |-> <<"P">>, symbol |-> <<"P">>, price |-> FloatValue(1),
             change_percent |-> Cell, volume |-> Cell, value |-> Cell]

\* run_scraper, app.py line 9: every thread constructs its own scraper.
ScraperOfShared(t) == "t1"
ScraperOf(t) == t
DriverOf(t) == driver[ScraperOf(t)]

Init ==
    /\ pc = [t \in Threads |-> "idle"]
    /\ driver = [t \in Threads |-> "None"]
    /\ session = [t \in Threads |-> "none"]
    /\ all_stocks_data = [t \in Threads |-> <<>>]
    /\ last_height = [t \in Threads |-> 0]
    /\ scroll_attempts = [t \in Threads |-> 0]
    /\ no_new_data_count = [t \in Threads |-> 0]
    /\ previous_stock_count = [t \in Threads |-> 0]
    /\ stocks_data = [t \in Threads |-> None]
    /\ file_exists = [t \in Threads |-> FALSE]
    /\ csv_file \in {Absent, File(<<HeaderLine, CsvLine(PriorRow)>>)}
    /\ creds \in BOOLEAN
    /\ prior = csv_file
    /\ iterations = [t \in Threads |-> 0]
    /\ never_stable = [t \in Threads |-> TRUE]
    /\ first_seen = [t \in Threads |-> <<>>]
    /\ dropped = [t \in Threads |-> FALSE]
    /\ skipped = [t \in Threads |-> FALSE]
    /\ response = [t \in Threads |-> "none"]
    /\ zero_streak = [t \in Threads |-> 0]
    /\ exit = [t \in Threads |-> "none"]
    /\ held = [t \in Threads |-> <<>>]
    /\ acquired = [t \in Threads |-> 0]
    /\ persisted = [t \in Threads |-> "no"]
    /\ notified = [t \in Threads |-> "no"]
    /\ saved = <<>>
    /\ save_failed = FALSE


Set(f, t, v) == [f EXCEPT ![t] = v]
Min(a, b) == IF a < b THEN a ELSE b

(***************************************************************************)
(* Decisions of scrape_stock_data and run_once.                            *)
(***************************************************************************)
AfterLoopEmptyList(data) == Some(data)

\* lines 231-236: after the loop, the list when it is not empty, else None.
AfterLoop(data) == IF data # <<>> THEN Some(data) ELSE None

OnDriverErrorPartial(data) == IF data # <<>> THEN Some(data) ELSE None

\* lines 238-241: the outer except returns None whatever was accumulated.
OnDriverError(data) == None

\* lines 316-329: 'if stocks_data:' saves, else run_once is over.
AfterScrape(value) == IF Truthy(value) THEN "csv_check" ELSE "cleanup"

AfterSaveAlways(ok) == "email_check"

\* lines 319-327: 'if self.save_to_csv(...)' sends the e-mail, else it is over.
AfterSave(ok) == IF ok THEN "email_check" ELSE "cleanup"

OnRunOnceExceptionNoFinally == "done"

\* lines 330-334: an exception in run_once is logged, then 'finally' cleans up.
OnRunOnceException == "cleanup"

OnQuitErrorEscapes == "crashed"

\* lines 91-92: cleanup_driver logs an error of quit(); run_once returns.
OnQuitError == "done"

\* app.py lines 28-31: the answer of trigger_scrape.
Acknowledgment == "Scraping job started"

SendFailureRaised == "raised"

\* lines 307-310: send_csv_email catches every Exception and returns False.
SendFailure == "False"

\* lines 189-196: the count of iterations without a new record.
NoNewAfterNoReset(t, data) == no_new_data_count[t] + 1

NoNewAfter(t, data) ==
    IF Len(data) = previous_stock_count[t] THEN no_new_data_count[t] + 1 ELSE 0

\* lines 190-194: break when the count reaches the limit.
StopsOnNoNew(t, data) ==
    Len(data) = previous_stock_count[t] /\ no_new_data_count[t] + 1 >= NoNewDataLimit

\* lines 204-205 and 216-217.
AttemptsAfter(t, h) == IF h = last_height[t] THEN scroll_attempts[t] + 1 ELSE 0

\* lines 204-206: the scroll to the very bottom is tried.
Probes(t, h) == h = last_height[t] /\ scroll_attempts[t] + 1 >= StableHeightLimit

\* line 220
TakesScreenshot(data) == Len(data) % ScreenshotEvery = 0

\* line 115
InLoop(t) == pc[t] = "loop" /\ scroll_attempts[t] < max_scroll_attempts

OpenModeTruncates(exists) == "w"

\* line 258
OpenMode(exists) == IF exists THEN "a" ELSE "w"

\* lines 262-265: the header when the file was not there, then the rows.
Written(exists, data) == (IF exists THEN <<>> ELSE <<HeaderLine>>) \o CsvLines(data)

\* What the file holds once out is written through a handle opened in mode:
\* 'a' writes at the end, 'w' from the start of the file it truncated.
WriteTo(lines, mode, out) ==
    IF mode = "a" THEN lines \o out
    ELSE out \o SubSeq(lines, Len(out) + 1, Len(lines))

(***************************************************************************)
(* The reference the histories keep: the rows that name a stock for the    *)
(* first time, in the order they were rendered.                             *)
(***************************************************************************)
Admissible(row) ==
    ~row.raises /\ Len(row.columns) >= MinColumns /\ NameOf[row] # <<>>

RECURSIVE FirstSeen(_, _)
FirstSeen(seen, rows) ==
    IF rows = <<>> THEN seen
    ELSE LET row == Head(rows)
             known == {seen[i].name : i \in 1..Len(seen)}
         IN  FirstSeen(IF Admissible(row) /\ NameOf[row] \notin known
                       THEN Append(seen, RecordOf[row]) ELSE seen,
                       Tail(rows))

\* Whether one of the rows names, when its turn comes, a stock already seen.
RECURSIVE Repeats(_, _)
Repeats(seen, rows) ==
    /\ rows # <<>>
    /\ \/ /\ Admissible(Head(rows))
          /\ \E i \in 1..Len(seen) : seen[i].name = NameOf[Head(rows)]
       \/ Repeats(FirstSeen(seen, <<Head(rows)>>), Tail(rows))

\* Whether one of the rows is passed over (too few cells, no name, an error)
\* and the row after it names a stock for the first time.
Skips(seen, rows) ==
    \E i \in 1..(Len(rows) - 1) :
        /\ ~Admissible(rows[i])
        /\ FirstSeen(seen, SubSeq(rows, 1, i + 1)) # FirstSeen(seen, SubSeq(rows, 1, i))

(***************************************************************************)
(* Steps shared by the actions.                                             *)
(***************************************************************************)
ResetLocals(t) ==
    /\ all_stocks_data' = Set(all_stocks_data, t, <<>>)
    /\ last_height' = Set(last_height, t, 0)
    /\ scroll_attempts' = Set(scroll_attempts, t, 0)
    /\ no_new_data_count' = Set(no_new_data_count, t, 0)
    /\ previous_stock_count' = Set(previous_stock_count, t, 0)

\* scrape_stock_data returns value; its locals are gone.
Leave(t, value, how, data) ==
    /\ stocks_data' = Set(stocks_data, t, value)
    /\ pc' = Set(pc, t, AfterScrape(value))
    /\ exit' = Set(exit, t, how)
    /\ held' = Set(held, t, data)
    /\ ResetLocals(t)

\* The histories of the loop.  iterations counts the iterations begun, to one
\* past the cap; zero_streak those in a row that named no new stock;
\* never_stable says that every iteration named a new stock and measured a
\* new height; dropped that a row was dropped as a duplicate; skipped that a
\* row was passed over and the row after it admitted.  An iteration
\* that leaves the loop keeps first_seen and zero_streak and closes the others.
Counted(t) == Min(iterations[t] + 1, max_scroll_attempts + 1)

\* An iteration that left the loop before it reached the rows.
LeftEarly(t) ==
    /\ iterations' = Set(iterations, t, 0)
    /\ never_stable' = Set(never_stable, t, TRUE)
    /\ dropped' = Set(dropped, t, FALSE)
    /\ skipped' = Set(skipped, t, FALSE)
    /\ UNCHANGED <<first_seen, zero_streak>>

\* What processing the rows of one iteration can give: the list after lines
\* 141-186, and beside it the first-seen rows of the history.
Extracted(t, page) ==
    {[data |-> ProcessRows(all_stocks_data[t], rows),
      seen |-> FirstSeen(first_seen[t], rows),
      repeats |-> Repeats(first_seen[t], rows),
      skips |-> page = "rows" /\ Skips(first_seen[t], rows)] : rows \in Rendered(page, all_stocks_data[t])}

\* An iteration that processed rows; stays: it goes on to another, having
\* measured h.
Processed(t, x, stays, h) ==
    LET seen == x.seen IN
    /\ first_seen' = Set(first_seen, t, seen)
    /\ dropped' = Set(dropped, t, stays /\ (dropped[t] \/ x.repeats))
    /\ skipped' = Set(skipped, t, stays /\ (skipped[t] \/ x.skips))
    /\ zero_streak' = Set(zero_streak, t, IF seen = first_seen[t] THEN zero_streak[t] + 1 ELSE 0)
    /\ iterations' = Set(iterations, t, IF stays THEN Counted(t) ELSE 0)
    /\ never_stable' = Set(never_stable, t,
            stays => never_stable[t] /\ seen # first_seen[t] /\ h # last_height[t])

(***************************************************************************)
(* app.py                                                                   *)
(***************************************************************************)
\* trigger_scrape starts a thread that runs run_scraper: a new scraper
\* object, then run_once.
trigger_scrape(t) ==
    /\ pc[t] = "idle"
    /\ pc' = Set(pc, t, "scrape")
    /\ driver' = Set(driver, ScraperOf(t), "None")
    /\ response' = Set(response, t, Acknowledgment)
    /\ UNCHANGED <<localVars, session, acquired, loopHist, exitHist, stocks_data,
                   deliveryVars, envVars>>

(***************************************************************************)
(* scrape_stock_data                                                        *)
(***************************************************************************)
\* lines 98-99 and setup_driver: the browser starts.
setup_driver(t) ==
    /\ pc[t] = "scrape"
    /\ pc' = Set(pc, t, "get")
    /\ IF DriverOf(t) = "None"
       THEN /\ driver' = Set(driver, ScraperOf(t), t)
            /\ session' = Set(session, t, "open")
            /\ acquired' = Set(acquired, t, acquired[t] + 1)
       ELSE UNCHANGED driverVars
    /\ UNCHANGED <<localVars, loopHist, exitHist, stocks_data, deliveryVars, envVars, response>>

\* setup_driver raises: webdriver.Chrome fails (no session, self.driver stays
\* None) or implicitly_wait fails (self.driver is set).  The call is outside
\* the try of scrape_stock_data, so the exception reaches run_once.
setup_driver_fails(t) ==
    /\ pc[t] = "scrape"
    /\ DriverOf(t) = "None"
    /\ pc' = Set(pc, t, OnRunOnceException)
    /\ exit' = Set(exit, t, "setup")
    /\ \/ UNCHANGED driverVars
       \/ /\ driver' = Set(driver, ScraperOf(t), t)
          /\ session' = Set(session, t, "open")
          /\ acquired' = Set(acquired, t, acquired[t] + 1)
    /\ UNCHANGED <<localVars, loopHist, held, stocks_data, deliveryVars, envVars, response>>

\* lines 102-113: the page loads and the locals are initialised.
get_page(t) ==
    /\ pc[t] = "get"
    /\ pc' = Set(pc, t, "loop")
    /\ ResetLocals(t)
    /\ UNCHANGED <<driverVars, loopHist, exitHist, stocks_data, deliveryVars, envVars, response>>

\* line 103 raises.
get_page_fails(t) ==
    /\ pc[t] = "get"
    /\ Leave(t, OnDriverError(<<>>), "get", <<>>)
    /\ UNCHANGED <<driverVars, loopHist, deliveryVars, envVars, response>>

\* line 121 raises in one of the three scrolls.
scroll_fails(t) ==
    /\ InLoop(t)
    /\ Leave(t, OnDriverError(all_stocks_data[t]), "scroll", all_stocks_data[t])
    /\ LeftEarly(t)
    /\ UNCHANGED <<driverVars, deliveryVars, envVars, response>>

\* lines 126-132: wait.until raises (a timeout or a driver error): break.
wait_fails(t) ==
    /\ InLoop(t)
    /\ Leave(t, AfterLoop(all_stocks_data[t]), "wait", all_stocks_data[t])
    /\ LeftEarly(t)
    /\ UNCHANGED <<driverVars, deliveryVars, envVars, response>>

\* lines 141-194: the rows are processed and there was no new record for the
\* fifth time: break.
no_new_data(t, page) ==
    /\ InLoop(t)
    /\ no_new_data_count[t] + 1 >= NoNewDataLimit
    /\ \E x \in Extracted(t, page) :
         /\ StopsOnNoNew(t, x.data)
         /\ Leave(t, AfterLoop(x.data), "no_new", x.data)
         /\ Processed(t, x, FALSE, 0)
    /\ UNCHANGED <<driverVars, deliveryVars, envVars, response>>

\* line 201 raises.
height_fails(t, page) ==
    /\ InLoop(t)
    /\ \E x \in Extracted(t, page) :
         /\ ~StopsOnNoNew(t, x.data)
         /\ Leave(t, OnDriverError(x.data), "height", x.data)
         /\ Processed(t, x, FALSE, 0)
    /\ UNCHANGED <<driverVars, deliveryVars, envVars, response>>

\* line 208 or 212 raises.
probe_fails(t, page) ==
    /\ InLoop(t)
    /\ \E h \in Measured(page, last_height[t]) :
         /\ Probes(t, h)
         /\ \E x \in Extracted(t, page) :
              /\ ~StopsOnNoNew(t, x.data)
              /\ Leave(t, OnDriverError(x.data), "probe", x.data)
              /\ Processed(t, x, FALSE, h)
    /\ UNCHANGED <<driverVars, deliveryVars, envVars, response>>

\* lines 204-215: the height is the same for the third time in a row or more,
\* and the same again after the scroll to the very bottom: break.
height_stable(t, page) ==
    /\ InLoop(t)
    /\ \E h \in Measured(page, last_height[t]) :
         /\ Probes(t, h)
         /\ \E x \in Extracted(t, page) :
              /\ ~StopsOnNoNew(t, x.data)
              /\ Leave(t, AfterLoop(x.data), "stable", x.data)
              /\ Processed(t, x, FALSE, h)
    /\ UNCHANGED <<driverVars, deliveryVars, envVars, response>>

\* The iteration gets past lines 200-217 with height h: no probe, or a probe
\* that measured another height than h.
PastHeight(t, page, h) ==
    \/ ~Probes(t, h)
    \/ \E final \in Measured(page, last_height[t]) : final # h

\* line 221 raises.
screenshot_fails(t, page) ==
    /\ InLoop(t)
    /\ \E x \in Extracted(t, page) :
         /\ ~StopsOnNoNew(t, x.data)
         /\ TakesScreenshot(x.data)
         /\ \E h \in Measured(page, last_height[t]) : PastHeight(t, page, h)
         /\ Leave(t, OnDriverError(x.data), "screenshot", x.data)
         /\ Processed(t, x, FALSE, 0)
    /\ UNCHANGED <<driverVars, deliveryVars, envVars, response>>

\* lines 115-229: a whole iteration, then the test of the while.
next_iteration(t, page) ==
    /\ InLoop(t)
    /\ \E x \in Extracted(t, page), h \in Measured(page, last_height[t]) :
         /\ ~StopsOnNoNew(t, x.data)
         /\ PastHeight(t, page, h)
         /\ Processed(t, x, AttemptsAfter(t, h) < max_scroll_attempts, h)
         /\ IF AttemptsAfter(t, h) < max_scroll_attempts
            THEN /\ all_stocks_data' = Set(all_stocks_data, t, x.data)
                 /\ no_new_data_count' = Set(no_new_data_count, t, NoNewAfter(t, x.data))
                 /\ previous_stock_count' = Set(previous_stock_count, t, Len(x.data))
                 /\ scroll_attempts' = Set(scroll_attempts, t, AttemptsAfter(t, h))
                 /\ last_height' = Set(last_height, t, h)
                 /\ UNCHANGED <<pc, stocks_data, exitHist>>
            ELSE Leave(t, AfterLoop(x.data), "cap", x.data)
    /\ UNCHANGED <<driverVars, deliveryVars, envVars, response>>

(***************************************************************************)
(* save_to_csv                                                              *)
(***************************************************************************)
\* lines 250-255: the file is opened for reading to learn whether it exists.
csv_check(t) ==
    /\ pc[t] = "csv_check"
    /\ pc' = Set(pc, t, "csv_open")
    /\ file_exists' = Set(file_exists, t, csv_file.exists)
    /\ UNCHANGED <<localVars, driverVars, loopHist, exitHist, stocks_data, csv_file,
                   persisted, notified, saved, save_failed, envVars, response>>

\* lines 258-259: open(self.csv_file, mode) creates the file, and truncates it
\* in mode 'w'.
csv_open(t) ==
    /\ pc[t] = "csv_open"
    /\ pc' = Set(pc, t, "csv_write")
    /\ csv_file' = IF OpenMode(file_exists[t]) = "w" THEN File(<<>>) ELSE File(csv_file.lines)
    /\ UNCHANGED <<localVars, driverVars, loopHist, exitHist, stocks_data, file_exists,
                   persisted, notified, saved, save_failed, envVars, response>>

\* lines 260-268: the header and the rows reach the file when it is closed.
csv_write(t) ==
    /\ pc[t] = "csv_write"
    /\ pc' = Set(pc, t, AfterSave(TRUE))
    /\ csv_file' = File(WriteTo(csv_file.lines, OpenMode(file_exists[t]),
                                Written(file_exists[t], stocks_data[t].rows)))
    /\ persisted' = Set(persisted, t, "True")
    /\ saved' = Append(saved, stocks_data[t].rows)
    /\ UNCHANGED <<localVars, driverVars, loopHist, exitHist, stocks_data, file_exists,
                   notified, save_failed, envVars, response>>

\* lines 270-273: an error of the file system at any of the three places; of
\* what was to be written only the first n lines got to the file.
csv_fails(t) ==
    /\ pc[t] \in {"csv_check", "csv_open", "csv_write"}
    /\ pc' = Set(pc, t, AfterSave(FALSE))
    /\ persisted' = Set(persisted, t, "False")
    /\ IF pc[t] = "csv_write"
       THEN \E n \in 0..Len(stocks_data[t].rows) :
              csv_file' = File(WriteTo(csv_file.lines, OpenMode(file_exists[t]),
                               SubSeq(Written(file_exists[t], stocks_data[t].rows), 1, n)))
       ELSE UNCHANGED csv_file
    /\ save_failed' = TRUE
    /\ UNCHANGED <<localVars, driverVars, loopHist, exitHist, stocks_data, file_exists,
                   notified, saved, envVars, response>>

(***************************************************************************)
(* send_csv_email                                                           *)
(***************************************************************************)
\* lines 278-280
email_check(t) ==
    /\ pc[t] = "email_check"
    /\ IF csv_file.exists
       THEN /\ pc' = Set(pc, t, "email_send")
            /\ UNCHANGED notified
       ELSE /\ pc' = Set(pc, t, "cleanup")
            /\ notified' = Set(notified, t, "False")
    /\ UNCHANGED <<localVars, driverVars, loopHist, exitHist, stocks_data, file_exists,
                   csv_file, persisted, saved, save_failed, envVars, response>>

\* lines 283-305: the file is read and sent as it is; the login needs the
\* credentials.
email_send(t) ==
    /\ pc[t] = "email_send"
    /\ creds
    /\ pc' = Set(pc, t, "cleanup")
    /\ notified' = Set(notified, t, "True")
    /\ UNCHANGED <<localVars, driverVars, loopHist, exitHist, stocks_data, file_exists,
                   csv_file, persisted, saved, save_failed, envVars, response>>

\* lines 307-310: building, reading or sending raised.
email_fails(t) ==
    /\ pc[t] = "email_send"
    /\ pc' = Set(pc, t, "cleanup")
    /\ notified' = Set(notified, t, SendFailure)
    /\ UNCHANGED <<localVars, driverVars, loopHist, exitHist, stocks_data, file_exists,
                   csv_file, persisted, saved, save_failed, envVars, response>>

(***************************************************************************)
(* cleanup_driver, from the finally of run_once, and the end of the thread *)
(***************************************************************************)
\* lines 87-94: quit returns or raises; self.driver is None either way.
cleanup_driver(t) ==
    /\ pc[t] = "cleanup"
    /\ IF DriverOf(t) # "None"
       THEN /\ \E how \in {"quit", "quit_raised"} :
                 /\ session' = Set(session, DriverOf(t), how)
                 /\ pc' = Set(pc, t, IF how = "quit" THEN "done" ELSE OnQuitError)
            /\ driver' = Set(driver, ScraperOf(t), "None")
       ELSE /\ pc' = Set(pc, t, "done")
            /\ UNCHANGED <<driver, session>>
    /\ UNCHANGED <<localVars, acquired, loopHist, exitHist, stocks_data, deliveryVars, envVars, response>>

\* run_once and run_scraper return: the thread is over and what it held is
\* garbage.
thread_ends(t) ==
    /\ pc[t] = "done"
    /\ pc' = Set(pc, t, "ended")
    /\ session' = Set(session, t, "none")
    /\ acquired' = Set(acquired, t, 0)
    /\ iterations' = Set(iterations, t, 0)
    /\ never_stable' = Set(never_stable, t, TRUE)
    /\ first_seen' = Set(first_seen, t, <<>>)
    /\ dropped' = Set(dropped, t, FALSE)
    /\ skipped' = Set(skipped, t, FALSE)
    /\ zero_streak' = Set(zero_streak, t, 0)
    /\ exit' = Set(exit, t, "none")
    /\ held' = Set(held, t, <<>>)
    /\ stocks_data' = Set(stocks_data, t, None)
    /\ file_exists' = Set(file_exists, t, FALSE)
    /\ persisted' = Set(persisted, t, "no")
    /\ notified' = Set(notified, t, "no")
    /\ UNCHANGED <<localVars, driver, csv_file, saved, save_failed, envVars, response>>

(***************************************************************************)
(* Specifications.                                                          *)
(*   Spec            one run; the page is the table.                        *)
(*   SpecConcurrent  two runs, one after the other or overlapping; the page *)
(*                   is the small table, whose one height ends the loop in  *)
(*                   its fourth iteration at the latest, before the limit   *)
(*                   of iterations without new data can be reached.         *)
(*   SpecTwice       the same two runs, the second after the first is over. *)
(*   SpecFeed        one run on a feed that grows whenever it is measured.  *)
(***************************************************************************)
Next ==
    \E t \in {"t1"} :
        \/ trigger_scrape(t)
        \/ setup_driver(t)
        \/ setup_driver_fails(t)
        \/ get_page(t)
        \/ get_page_fails(t)
        \/ scroll_fails(t)
        \/ wait_fails(t)
        \/ no_new_data(t, "table")
        \/ height_fails(t, "table")
        \/ probe_fails(t, "table")
        \/ height_stable(t, "table")
        \/ screenshot_fails(t, "table")
        \/ next_iteration(t, "table")
        \/ csv_check(t)
        \/ csv_open(t)
        \/ csv_write(t)
        \/ csv_fails(t)
        \/ email_check(t)
        \/ email_send(t)
        \/ email_fails(t)
        \/ cleanup_driver(t)
        \/ thread_ends(t)

Spec == Init /\ [][Next]_vars

\* A step of a run of thread t on the small table.
SmallRun(t) ==
    \/ setup_driver(t)
    \/ setup_driver_fails(t)
    \/ get_page(t)
    \/ get_page_fails(t)
    \/ scroll_fails(t)
    \/ wait_fails(t)
    \/ height_fails(t, "small")
    \/ probe_fails(t, "small")
    \/ height_stable(t, "small")
    \/ screenshot_fails(t, "small")
    \/ next_iteration(t, "small")
    \/ csv_check(t)
    \/ csv_open(t)
    \/ csv_write(t)
    \/ csv_fails(t)
    \/ email_check(t)
    \/ email_send(t)
    \/ email_fails(t)
    \/ cleanup_driver(t)
    \/ thread_ends(t)

NextConcurrent == \E t \in Threads : trigger_scrape(t) \/ SmallRun(t)

\* The overlapping runs are checked with the credentials configured.
InitConfigured == Init /\ creds = TRUE

SpecConcurrent == InitConfigured /\ [][NextConcurrent]_vars

\* The endpoint is called while no run is under way.
trigger_scrape_alone(t) ==
    /\ \A u \in Threads : pc[u] \in {"idle", "ended"}
    /\ trigger_scrape(t)

NextTwice == \E t \in Threads : trigger_scrape_alone(t) \/ SmallRun(t)

SpecTwice == Init /\ [][NextTwice]_vars

NextFeed ==
    \E t \in {"t1"} :
        \/ trigger_scrape(t)
        \/ setup_driver(t)
        \/ setup_driver_fails(t)
        \/ get_page(t)
        \/ get_page_fails(t)
        \/ scroll_fails(t)
        \/ wait_fails(t)
        \/ no_new_data(t, "feed")
        \/ height_fails(t, "feed")
        \/ screenshot_fails(t, "feed")
        \/ next_iteration(t, "feed")
        \/ csv_check(t)
        \/ csv_open(t)
        \/ csv_write(t)
        \/ csv_fails(t)
        \/ email_check(t)
        \/ email_send(t)
        \/ email_fails(t)
        \/ cleanup_driver(t)
        \/ thread_ends(t)

SpecFeed == Init /\ [][NextFeed]_vars

\* One run whose driver never fails, on a page that renders up to
\* MaxExtractorRows rows of every kind at a time.
NextRows ==
    \E t \in {"t1"} :
        \/ trigger_scrape(t)
        \/ setup_driver(t)
        \/ get_page(t)
        \/ height_stable(t, "rows")
        \/ next_iteration(t, "rows")
        \/ csv_check(t)
        \/ csv_open(t)
        \/ csv_write(t)
        \/ email_check(t)
        \/ email_send(t)
        \/ cleanup_driver(t)
        \/ thread_ends(t)

SpecRows == InitConfigured /\ [][NextRows]_vars


(***************************************************************************)
(* The claims.                                                              *)
(***************************************************************************)
IsPrefix(a, b) == Len(a) <= Len(b) /\ SubSeq(b, 1, Len(a)) = a
IsSuffix(a, b) == Len(a) <= Len(b) /\ SubSeq(b, Len(b) - Len(a) + 1, Len(b)) = a
NoRepeatedName(data) ==
    \A i, j \in 1..Len(data) : data[i].name = data[j].name => i = j

\* C1 (as claimed): the loop stops after 50 iterations whatever the streaks:
\* a run whose every iteration named a new stock and measured a new height
\* has left the loop once it has made 50 iterations.
C1_StopsAtFifty ==
    \A t \in Threads :
        (pc[t] = "loop" /\ never_stable[t]) => iterations[t] < max_scroll_attempts

C3_Kept ==
    \A t \in Threads :
        /\ NoRepeatedName(all_stocks_data[t])
        /\ pc[t] = "loop" => all_stocks_data[t] = first_seen[t]
        /\ exit[t] \notin {"none", "setup", "get"} => held[t] = first_seen[t]
        /\ ~stocks_data[t].is_none => stocks_data[t].rows = first_seen[t]
        /\ Len(all_stocks_data[t]) = Cardinality({all_stocks_data[t][i].name : i \in 1..Len(all_stocks_data[t])})

\* C3, with the steps: C3_Kept in every state, and a step inside the loop
\* leaves the list it found as a prefix of the list it leaves.
C3_FirstOccurrence ==
    /\ []C3_Kept
    /\ [][\A t \in Threads :
            (pc[t] = "loop" /\ pc'[t] = "loop") =>
                IsPrefix(all_stocks_data[t], all_stocks_data'[t])]_vars

\* The rows A, B, A of three iterations: the list is A, B and the third
\* iteration dropped its row.
C3_DuplicateDropped ==
    \E t \in Threads :
        /\ pc[t] = "loop"
        /\ iterations[t] = 3
        /\ zero_streak[t] = 1
        /\ dropped[t]
        /\ all_stocks_data[t] = <<StockData(RowA1.columns), StockData(RowB.columns)>>

\* C4: the loop is left on the fifth iteration in a row that admits nothing,
\* by the break of lines 192-194 whatever the heights, and neither before the
\* fifth nor after it; an iteration that admits a record sets the count of
\* the code back to 0.
C4_FifthIteration ==
    \A t \in Threads :
        /\ pc[t] = "loop" =>
              zero_streak[t] < NoNewDataLimit /\ no_new_data_count[t] = zero_streak[t]
        /\ exit[t] = "no_new" <=> zero_streak[t] = NoNewDataLimit
        /\ zero_streak[t] <= NoNewDataLimit

C4_StoppedOnFifth ==
    \E t \in Threads :
        exit[t] = "no_new" /\ zero_streak[t] = NoNewDataLimit /\ held[t] # <<>>

\* C5: when run_once is over the driver of the run has been quit and
\* self.driver is None, however the run went; a run launches one session at
\* most.
C5_DriverReleased ==
    \A t \in Threads :
        /\ acquired[t] <= 1
        /\ pc[t] = "done" =>
              /\ DriverOf(t) = "None"
              /\ acquired[t] = 1 => session[t] \in {"quit", "quit_raised"}
              /\ acquired[t] = 0 => session[t] = "none"

\* A run that failed in a scroll after it had collected records.
C5_ReleasedAfterFailure ==
    \E t \in Threads :
        /\ pc[t] = "done"
        /\ exit[t] = "scroll"
        /\ held[t] # <<>>
        /\ session[t] = "quit"

\* C6: send_csv_email is called only after save_to_csv of the same run has
\* returned True.
C6_NotifyAfterPersist ==
    \A t \in Threads :
        /\ (pc[t] \in {"email_check", "email_send"} \/ notified[t] # "no") => persisted[t] = "True"
        /\ persisted[t] = "False" => notified[t] = "no"

C6_PersistFailed ==
    \E t \in Threads : pc[t] = "done" /\ persisted[t] = "False" /\ notified[t] = "no"

\* What the file holds after the lists were saved one after the other to a
\* file that was as before.
RECURSIVE AllLines(_)
AllLines(lists) ==
    IF lists = <<>> THEN <<>> ELSE CsvLines(Head(lists)) \o AllLines(Tail(lists))

ExpectedFile(before, lists) ==
    IF lists = <<>> THEN before
    ELSE File((IF before.exists THEN before.lines ELSE <<HeaderLine>>) \o AllLines(lists))

\* C7: calls of save_to_csv that follow one another and succeed leave the
\* file with one header, written by the first call when there was no file,
\* then the rows of every call in the order of the calls.
C7_OneHeader ==
    (~save_failed /\ \A t \in Threads : pc[t] # "csv_write") =>
        csv_file = ExpectedFile(prior, saved)

C7_SavedTwice ==
    /\ ~prior.exists
    /\ ~save_failed
    /\ Len(saved) = 2
    /\ saved[1] # saved[2]
    /\ csv_file.lines = <<HeaderLine>> \o CsvLines(saved[1]) \o CsvLines(saved[2])

HarvestState(u) ==
    <<DriverOf(u), all_stocks_data[u], last_height[u], scroll_attempts[u],
      no_new_data_count[u], previous_stock_count[u], stocks_data[u]>>

\* The step is one of thread t.
Acts(t) == pc'[t] # pc[t] \/ iterations'[t] # iterations[t]

\* C9: whatever a run returns is the first-occurrence list of its own rows,
\* and a step of one thread changes nothing of the harvest state of another.
C9_Isolation ==
    /\ [](\A t \in Threads : ~stocks_data[t].is_none => stocks_data[t].rows = first_seen[t])
    /\ [][\A t \in Threads :
            Acts(t) => \A u \in Threads \ {t} : HarvestState(u)' = HarvestState(u)]_vars

\* Both runs are in their loops, each with its own session and its own list.
C9_BothHarvesting ==
    /\ pc["t1"] = "loop" /\ pc["t2"] = "loop"
    /\ DriverOf("t1") = "t1" /\ DriverOf("t2") = "t2"
    /\ all_stocks_data["t1"] # <<>> /\ all_stocks_data["t2"] # <<>>
    /\ all_stocks_data["t1"] # all_stocks_data["t2"]

\* C10: send_csv_email that fails returns False, without the credentials too,
\* and no step of it changes the file: the rows the run saved are still the
\* last rows of the file.
C10_NotifyReports ==
    \A t \in Threads :
        /\ notified[t] \in {"no", "True", "False"}
        /\ ~creds => notified[t] # "True"
        /\ (notified[t] = "False" /\ pc[t] \in {"cleanup", "done"}) =>
              csv_file.exists /\ IsSuffix(CsvLines(stocks_data[t].rows), csv_file.lines)

\* C10, with the steps: C10_NotifyReports in every state, and a step of
\* send_csv_email leaves the file as it is and returns to run_once.
C10_NotifyFailure ==
    /\ []C10_NotifyReports
    /\ [][\A t \in Threads :
            (pc[t] \in {"email_check", "email_send"} /\ pc'[t] # pc[t]) =>
                csv_file' = csv_file /\ pc'[t] \in {"email_send", "cleanup"}]_vars

C10_FailedWithoutCredentials ==
    \E t \in Threads :
        /\ ~creds
        /\ pc[t] = "done"
        /\ persisted[t] = "True"
        /\ notified[t] = "False"
        /\ IsSuffix(CsvLines(stocks_data[t].rows), csv_file.lines)

\* C11: a harvest that ends with no record returns None, whether no row
\* was ever found or every row was rejected; run_once then calls neither
\* save_to_csv nor send_csv_email, and the file is as it was before the run.
C11_EmptyIsFailure ==
    \A t \in Threads :
        (exit[t] # "none" /\ held[t] = <<>>) =>
            /\ stocks_data[t].is_none
            /\ pc[t] \in {"cleanup", "done"}
            /\ persisted[t] = "no"
            /\ notified[t] = "no"
            /\ csv_file = prior

\* Five iterations whose rows were all rejected, with a file from before.
C11_EveryRowRejected ==
    \E t \in Threads :
        /\ pc[t] = "done"
        /\ exit[t] = "no_new"
        /\ held[t] = <<>>
        /\ prior.exists
        /\ csv_file = prior

\* C12 (as claimed): when the count of unchanged heights reaches 3 the loop
\* probes, and then it stops or goes on with the count back at 0: an
\* iteration never starts with a count of 3 or more.
C12_ProbeResets ==
    \A t \in Threads : pc[t] = "loop" => scroll_attempts[t] < StableHeightLimit

\* C13 (as claimed): a wait for the rows that times out after rows were found
\* does not stop the loop: the loop is left through the failed wait only by
\* a run that holds no record.
C13_TimeoutGoesOn ==
    \A t \in Threads : exit[t] = "wait" => held[t] = <<>>

\* C14 (as claimed): save_screenshot that fails does not end the loop: no run
\* leaves scrape_stock_data because of a screenshot.
C14_SnapshotBestEffort ==
    \A t \in Threads : exit[t] # "screenshot"

\* The rows with a problem of their own: too few cells, a blank first cell,
\* an error raised while the row is read.
ProblemRows == {RowShort, RowBlank, RowStale}

\* C15: a row with fewer than 5 cells, with a blank first cell, or whose
\* processing raises gives no record and leaves the list as it was; the row
\* after it is processed as if it came first, and the loop is not left
\* because of a row.
C15_RowsPassedOver ==
    \A t \in Threads :
        /\ pc[t] = "loop" => all_stocks_data[t] = first_seen[t]
        /\ \A i \in 1..Len(all_stocks_data[t]) : all_stocks_data[t][i].name # <<>>
        /\ exit[t] \in {"none", "stable", "cap"}
        /\ \A bad \in ProblemRows :
              /\ ProcessRow(all_stocks_data[t], bad) = all_stocks_data[t]
              /\ \A row \in ExtractorRows :
                    ProcessRows(all_stocks_data[t], <<bad, row>>) =
                        ProcessRow(all_stocks_data[t], row)

\* An iteration passed over a row and admitted the row after it, and the loop
\* went on.
C15_PassedOverThenAdmitted ==
    \E t \in Threads :
        pc[t] = "loop" /\ skipped[t] /\ all_stocks_data[t] # <<>>

\* The text after the first line break of a name that has one.
AfterFirstBreak(name) == SubSeq(name, FirstNewline(name) + 1, Len(name))

\* C16 (as claimed): the price of every record is a number, 0 when the cell
\* did not parse, whether it held other text or nothing.
C16_PriceIsNumber ==
    \A t \in Threads :
        \A i \in 1..Len(all_stocks_data[t]) : all_stocks_data[t][i].price.kind = "float"

\* C17 (as claimed): no record has a number below 0 as its price.
C17_PriceNotNegative ==
    \A t \in Threads :
        \A i \in 1..Len(all_stocks_data[t]) :
            all_stocks_data[t][i].price.kind = "float" => all_stocks_data[t][i].price.v >= 0

\* C18 (as claimed): the symbol of a record is all the text after the first
\* line break of its name, and the name itself when it has no line break.
C18_SymbolAfterBreak ==
    \A t \in Threads :
        \A i \in 1..Len(all_stocks_data[t]) :
            LET name == all_stocks_data[t][i].name
            IN  all_stocks_data[t][i].symbol =
                    IF HasNewline(name) THEN AfterFirstBreak(name) ELSE name

\* C19 (as claimed): once two overlapping runs have both saved, the file is
\* one header line and then rows only, with nothing of what was there before
\* missing and every row of both runs in it.
C19_OneHeaderEveryRow ==
    (~save_failed /\ \A t \in Threads : persisted[t] = "True") =>
        LET lines == csv_file.lines
            before == IF prior.exists THEN Len(prior.lines) ELSE 1
        IN  /\ Len(lines) = before + Len(stocks_data["t1"].rows) + Len(stocks_data["t2"].rows)
            /\ lines[1] = HeaderLine
            /\ \A i \in 2..Len(lines) : ~lines[i].header
            /\ \A t \in Threads : \A i \in 1..Len(stocks_data[t].rows) :
                  \E j \in 1..Len(lines) : lines[j] = CsvLine(stocks_data[t].rows[i])

\* C20: no thread dies of an exception that escaped run_once, whatever
\* failed and quit() included, and every request that started a thread was
\* answered with the same acknowledgment.
C20_NothingEscapes ==
    \A t \in Threads :
        /\ pc[t] \in {"idle", "scrape", "get", "loop", "csv_check", "csv_open", "csv_write",
                      "email_check", "email_send", "cleanup", "done", "ended"}
        /\ response[t] = IF pc[t] = "idle" THEN "none" ELSE Acknowledgment

\* The setup failed with the browser launched, and then quit() failed too.
C20_SetupAndQuitFailed ==
    \E t \in Threads :
        /\ pc[t] = "done"
        /\ exit[t] = "setup"
        /\ session[t] = "quit_raised"
        /\ response[t] = Acknowledgment

=============================================================================
